---- MODULE Spec2Model ----
(***************************************************************************)
(* Booking / payment reconciliation of the away-game bus trips:            *)
(* requestSwishPayment, swishPaymentCallback, cancelBooking,               *)
(* swishRefundCallback and the capacity read model busesWithPaidPassengers.*)
(*                                                                         *)
(* Every handler is an async function; each await (a database call, a call *)
(* to the payment gateway) is one atomic step and an interleaving point.   *)
(* The ledger tables are sequences in insertion order; a row's id is its   *)
(* index.  Row fields that no handler reads back (message, error code,     *)
(* timestamps) are left out.  Single-row creates are taken to succeed; the *)
(* participant transaction and the gateway calls can fail.                 *)
(*                                                                         *)
(* An invocation holds a slot of its handler while it runs and frees it    *)
(* when it answers.  What a handler decides from what it has read is an    *)
(* operator of its own (cancelBookingCheck, ...), used by the step.        *)
(***************************************************************************)
EXTENDS Integers, Sequences, FiniteSets, TLC

VARIABLES
    participants,   \* table Participant
    payments,       \* table SwishPayment
    refunds,        \* table SwishRefund
    swishPay,       \* payment requests accepted by the gateway; the index is the payment id
    swishRefund,    \* refund requests accepted by the gateway; the index is the refund id
    emails,         \* emails[p]: confirmation sends attempted for participant p
    signup,         \* running invocations of requestSwishPayment
    paycb,          \* running invocations of swishPaymentCallback
    cancel,         \* running invocations of cancelBooking
    refcb           \* running invocations of swishRefundCallback

vars == <<participants, payments, refunds, swishPay, swishRefund, emails,
          signup, paycb, cancel, refcb>>

(***************************************************************************)
(* Bounds of the model.                                                    *)
(***************************************************************************)
\* Invocations running at the same time.
MaxInFlight == 2
\* Rows of the three ledger tables together.
MaxRows == 6
\* Participants of one signup request.
MaxParticipants == 2
\* new Date() reads a time from 0 to MaxTime.
MaxTime == 5

(***************************************************************************)
(* Static data: the events and buses the administrative side created.      *)
(***************************************************************************)
\* One event, leaving at time 4, with the four price tiers.
Events ==
    [e1 |-> [date |-> 4, defaultPrice |-> 100, memberPrice |-> 80,
             youthPrice |-> 60, youthMemberPrice |-> 40],
     e2 |-> [date |-> 4, defaultPrice |-> 200, memberPrice |-> 160,
             youthPrice |-> 120, youthMemberPrice |-> 80]]

EventIds == DOMAIN Events

\* An event id no event carries.
NoEvent == "none"

Buses ==
    [b1 |-> [eventId |-> "e1", seats |-> 1],
     b2 |-> [eventId |-> "e1", seats |-> 2],
     b3 |-> [eventId |-> "e2", seats |-> 1]]

BusIds == DOMAIN Buses

\* The candidate participants a signup request is built from.
ParticipantInputs ==
    { [busId |-> "b1", member |-> FALSE, youth |-> FALSE, phone |-> "A"],
      [busId |-> "b2", member |-> TRUE,  youth |-> TRUE,  phone |-> "B"] }

\* The requests of n participants the booking form of an event sends: the
\* form of an event offers the buses of that event.
formRequests(inputs, eventId, n) ==
    { req \in [1..n -> inputs] :
        \A i \in 1..n :
           eventId \in EventIds => Buses[req[i].busId].eventId = eventId }

\* Statuses the gateway reports in callbacks (z.enum of the status enums).
CallbackPaymentStatuses == {"PAID", "DECLINED"}
CallbackRefundStatuses == {"PAID", "ERROR"}

(***************************************************************************)
(* Pure helpers.                                                           *)
(***************************************************************************)
RECURSIVE SeqSum(_)
SeqSum(s) == IF s = <<>> THEN 0 ELSE Head(s) + SeqSum(Tail(s))

\* A cost rule that asks for membership first and for youth only after it.
getParticipantCostMemberFirst(participant, event) ==
    IF participant.member THEN event.memberPrice
    ELSE IF participant.youth THEN event.youthPrice
    ELSE event.defaultPrice

getParticipantCost(participant, event) ==
    IF participant.youth /\ participant.member THEN event.youthMemberPrice
    ELSE IF participant.youth /\ ~participant.member THEN event.youthPrice
    ELSE IF ~participant.youth /\ participant.member THEN event.memberPrice
    ELSE event.defaultPrice

\* A total that charges every participant the default price.
calculateCostAtDefaultPrice(ps, event) == Len(ps) * event.defaultPrice

calculateCost(ps, event) ==
    SeqSum([i \in 1..Len(ps) |-> getParticipantCost(ps[i], event)])

\* subDays(participant.event.date, 2), one time unit being a day.
twoDaysBeforeDeparture(date) == date - 2

\* An interval check that leaves both ends out.
isWithinOpenInterval(t, start, end) == start < t /\ t < end

\* date-fns isWithinInterval: both ends belong to the interval.
isWithinInterval(t, start, end) == start <= t /\ t <= end

(***************************************************************************)
(* Ledger reads.                                                           *)
(***************************************************************************)
ParticipantIds == 1..Len(participants)

\* participant.swishPayments: the rows of SwishPayment connected to p.
swishPaymentsOf(p) == { i \in 1..Len(payments) : p \in payments[i].participants }

\* participant.swishRefunds
swishRefundsOf(p) == { i \in 1..Len(refunds) : refunds[i].participantId = p }

\* prisma.swishPayment.findFirst({ where: { paymentId } }): no orderBy is
\* given, so any matching row may be the one returned.
\* A lookup without its where clause: any row of the table.
findAnyPayments(paymentId) == 1..Len(payments)

findPayments(paymentId) ==
    { i \in 1..Len(payments) : payments[i].paymentId = paymentId }

\* prisma.swishRefund.findFirst({ where: { refundId } })
findRefunds(refundId) ==
    { i \in 1..Len(refunds) : refunds[i].refundId = refundId }

(***************************************************************************)
(* Capacity read model.                                                    *)
(***************************************************************************)
\* The count of the first getAwayGames: every passenger, paid or not.
isPassenger(p) == p \in ParticipantIds

\* A filter that takes a payment of any status for a booking.
hasPaymentRequest(p) ==
    /\ swishPaymentsOf(p) # {}
    /\ ~ \E i \in swishRefundsOf(p) : refunds[i].status = "PAID"

\* A filter that looks at the payments only.
hasPaidPayment(p) == \E i \in swishPaymentsOf(p) : payments[i].status = "PAID"

\* The where-clause of busesWithPaidPassengers.
isPaidPassenger(p) ==
    /\ \E i \in swishPaymentsOf(p) : payments[i].status = "PAID"
    /\ ~ \E i \in swishRefundsOf(p) : refunds[i].status = "PAID"

\* A count over the join of passengers and their PAID payments.
paidPassengerRows(busId) ==
    Cardinality({ x \in ParticipantIds \X (1..Len(payments)) :
                    /\ participants[x[1]].busId = busId
                    /\ isPaidPassenger(x[1])
                    /\ x[1] \in payments[x[2]].participants
                    /\ payments[x[2]].status = "PAID" })

\* bus._count.passengers
paidPassengers(busId) ==
    Cardinality({ p \in ParticipantIds :
                    participants[p].busId = busId /\ isPaidPassenger(p) })

RECURSIVE SumOver(_, _)
SumOver(S, f) ==
    IF S = {} THEN 0
    ELSE LET x == CHOOSE y \in S : TRUE IN f[x] + SumOver(S \ {x}, f)

busesOf(eventId) == { b \in BusIds : Buses[b].eventId = eventId }

\* getAwayGames: bookedSeats and maxSeats of an event.
bookedSeats(eventId) ==
    SumOver(busesOf(eventId), [b \in BusIds |-> paidPassengers(b)])

maxSeats(eventId) ==
    SumOver(busesOf(eventId), [b \in BusIds |-> Buses[b].seats])

(***************************************************************************)
(* Initial state: empty ledger, nothing running.                           *)
(***************************************************************************)
IdleSignup ==
    [pc |-> "idle", eventId |-> NoEvent, req |-> <<>>, created |-> <<>>,
     paymentRequestId |-> 0]

IdlePaymentCallback ==
    [pc |-> "idle", id |-> 0, status |-> "CREATED", amount |-> 0, payerAlias |-> "",
     originalPayment |-> 0, newPayment |-> 0]

IdleCancel ==
    [pc |-> "idle", token |-> 0, today |-> 0, swishPayment |-> 0,
     refundRequestId |-> 0]

IdleRefundCallback ==
    [pc |-> "idle", id |-> 0, status |-> "CREATED", amount |-> 0,
     refundIntent |-> 0]

Slots == 1..MaxInFlight

Init ==
    /\ participants = <<>>
    /\ payments = <<>>
    /\ refunds = <<>>
    /\ swishPay = <<>>
    /\ swishRefund = <<>>
    /\ emails = <<>>
    /\ signup = [s \in Slots |-> IdleSignup]
    /\ paycb = [c \in Slots |-> IdlePaymentCallback]
    /\ cancel = [c \in Slots |-> IdleCancel]
    /\ refcb = [c \in Slots |-> IdleRefundCallback]

(***************************************************************************)
(* Admission of invocations within the bounds.                             *)
(***************************************************************************)
Running(slots) == { i \in Slots : slots[i].pc # "idle" }

InFlight ==
    Cardinality(Running(signup)) + Cardinality(Running(paycb))
      + Cardinality(Running(cancel)) + Cardinality(Running(refcb))

Rows == Len(participants) + Len(payments) + Len(refunds)

\* Rows the running invocations may still add: one each, and the
\* participants of a signup before its transaction.
PendingRows ==
    Cardinality({ i \in Slots : signup[i].pc \in {"transaction", "gateway", "persist"} })
      + Cardinality({ i \in Slots : paycb[i].pc = "create" })
      + Cardinality({ i \in Slots : cancel[i].pc \in {"gateway", "persist"} })
      + Cardinality({ i \in Slots : refcb[i].pc = "create" })
      + SumOver({ i \in Slots : signup[i].pc = "transaction" },
                [i \in Slots |-> Len(signup[i].req)])

\* A new invocation takes the lowest slot of its handler, which is free.
MayStart(slots, i, need) ==
    /\ InFlight < MaxInFlight
    /\ Rows + PendingRows + need <= MaxRows
    /\ slots[i].pc = "idle"
    /\ \A j \in Slots : j < i => slots[j].pc # "idle"

(***************************************************************************)
(* requestSwishPayment                                                     *)
(***************************************************************************)
\* Creates awaited one after the other outside a transaction: the rows
\* before the failing insert stay.
sequentialRows(rows, failAt) ==
    IF failAt = 0 THEN rows ELSE SubSeq(rows, 1, failAt - 1)

\* The rows prisma.$transaction leaves behind when insert number failAt
\* fails (0: none fails): all of them or none.
transactionRows(rows, failAt) == IF failAt = 0 THEN rows ELSE <<>>

\* data of prisma.participant.create
newParticipant(input, eventId) ==
    [busId |-> input.busId, eventId |-> eventId, member |-> input.member,
     youth |-> input.youth, phone |-> input.phone,
     payAmount |-> getParticipantCost(input, Events[eventId])]

\* A handler that goes on without looking at the result of the lookup.
requestSwishPaymentUnchecked(eventId) == "ok"

\* What requestSwishPayment answers before its try block: BAD_REQUEST
\* "Event not found", or "ok" to go on.
requestSwishPaymentCheck(eventId) ==
    IF eventId \in EventIds THEN "ok" ELSE "BAD_REQUEST"

\* The request arrives; vastraEvent.findFirst.
requestSwishPaymentFindEvent(s) ==
    /\ \E n \in 1..MaxParticipants :
          /\ MayStart(signup, s, n + 1)
          /\ \E eventId \in EventIds \cup {NoEvent} :
             \E req \in formRequests(ParticipantInputs, eventId, n) :
                IF requestSwishPaymentCheck(eventId) = "ok"
                THEN signup' = [signup EXCEPT ![s] =
                        [IdleSignup EXCEPT !.pc = "transaction",
                                           !.eventId = eventId, !.req = req]]
                ELSE UNCHANGED signup
    /\ UNCHANGED <<participants, payments, refunds, swishPay, swishRefund,
                   emails, paycb, cancel, refcb>>

\* prisma.$transaction of the participant creates; when an insert fails the
\* catch block answers INTERNAL_SERVER_ERROR.
requestSwishPaymentTransaction(s) ==
    /\ signup[s].pc = "transaction"
    /\ \E failAt \in 0..Len(signup[s].req) :
         LET req == signup[s].req
             rows == [i \in 1..Len(req) |-> newParticipant(req[i], signup[s].eventId)]
             kept == transactionRows(rows, failAt)
             first == Len(participants)
         IN /\ participants' = participants \o kept
            /\ emails' = emails \o [i \in 1..Len(kept) |-> 0]
            /\ IF failAt = 0
               THEN signup' = [signup EXCEPT ![s].pc = "gateway",
                            ![s].created = [i \in 1..Len(rows) |-> first + i]]
               ELSE signup' = [signup EXCEPT ![s] = IdleSignup]
    /\ UNCHANGED <<payments, refunds, swishPay, swishRefund, paycb, cancel, refcb>>

\* A catch block that deletes the participants the call created.
catchDeletingParticipants(table, created) ==
    SubSeq(table, 1, created[1] - 1)
       \o SubSeq(table, created[Len(created)] + 1, Len(table))

\* The participant table after the catch block of requestSwishPayment: it
\* logs the error and throws INTERNAL_SERVER_ERROR; the rows the transaction
\* committed stay.
catchPaymentRequestError(table, created) == table

\* createPaymentRequest: the gateway accepts the request, or the call throws
\* and the catch block answers INTERNAL_SERVER_ERROR.
requestSwishPaymentGateway(s) ==
    /\ signup[s].pc = "gateway"
    /\ \/ /\ swishPay' = Append(swishPay,
                [amount |-> calculateCost(signup[s].req, Events[signup[s].eventId]),
                 payerAlias |-> signup[s].req[1].phone,
                 acknowledged |-> 0])
          /\ signup' = [signup EXCEPT ![s].pc = "persist",
                                      ![s].paymentRequestId = Len(swishPay) + 1]
          /\ UNCHANGED participants
       \/ /\ signup' = [signup EXCEPT ![s] = IdleSignup]
          /\ participants' = catchPaymentRequestError(participants, signup[s].created)
          /\ UNCHANGED swishPay
    /\ UNCHANGED <<payments, refunds, swishRefund, emails,
                   paycb, cancel, refcb>>

\* A row connected to the first participant of the call only.
newPaymentIntentOfPayer(s) ==
    [paymentId |-> signup[s].paymentRequestId,
     paymentRequestUrl |-> signup[s].paymentRequestId,
     payerAlias |-> signup[s].req[1].phone,
     amount |-> calculateCost(signup[s].req, Events[signup[s].eventId]),
     status |-> "CREATED",
     participants |-> { signup[s].created[1] }]

\* data of prisma.swishPayment.create in requestSwishPayment
newPaymentIntent(s) ==
    [paymentId |-> signup[s].paymentRequestId,
     paymentRequestUrl |-> signup[s].paymentRequestId,
     payerAlias |-> signup[s].req[1].phone,
     amount |-> calculateCost(signup[s].req, Events[signup[s].eventId]),
     status |-> "CREATED",
     participants |-> { signup[s].created[i] : i \in 1..Len(signup[s].created) }]

\* return paymentIntent.paymentId
requestSwishPaymentResult(s) == newPaymentIntent(s).paymentId

requestSwishPaymentPersist(s) ==
    /\ signup[s].pc = "persist"
    /\ payments' = Append(payments, newPaymentIntent(s))
    /\ signup' = [signup EXCEPT ![s] = IdleSignup]
    /\ UNCHANGED <<participants, refunds, swishPay, swishRefund, emails,
                   paycb, cancel, refcb>>

(***************************************************************************)
(* swishPaymentCallback                                                    *)
(***************************************************************************)
\* An id the gateway never issued.
UnknownId == 99

\* What swishPaymentCallback answers after its lookup: BAD_REQUEST "Payment
\* not found" when no row carries the payment id, or "ok" to go on.
swishPaymentCallbackCheck(id) ==
    IF findPayments(id) = {} THEN "BAD_REQUEST" ELSE "ok"

\* What the gateway can deliver: a status report for a payment id it issued,
\* carrying the amount of that request, or a report for an unknown id.
\* findFirst by payment id; BAD_REQUEST when no row carries the id.
swishPaymentCallbackFind(c) ==
    /\ MayStart(paycb, c, 1)
    /\ \E id \in (1..Len(swishPay)) \cup {UnknownId},
          status \in CallbackPaymentStatuses :
         LET amount == IF id \in 1..Len(swishPay) THEN swishPay[id].amount ELSE 0
             payerAlias == IF id \in 1..Len(swishPay)
                           THEN swishPay[id].payerAlias ELSE ""
             input == [IdlePaymentCallback EXCEPT !.id = id, !.status = status,
                                                  !.amount = amount,
                                                  !.payerAlias = payerAlias]
         IN IF swishPaymentCallbackCheck(id) = "BAD_REQUEST"
            THEN UNCHANGED paycb
            ELSE \E row \in findPayments(id) :
                    paycb' = [paycb EXCEPT ![c] =
                       [input EXCEPT !.pc = "create", !.originalPayment = row]]
    /\ UNCHANGED <<participants, payments, refunds, swishPay, swishRefund,
                   emails, signup, cancel, refcb>>

\* A row that takes its status from the row found, not from the callback.
newPaymentWithStatusOfOriginal(input, originalPayment) ==
    [paymentId |-> input.id,
     paymentRequestUrl |-> originalPayment.paymentRequestUrl,
     payerAlias |-> input.payerAlias,
     amount |-> input.amount,
     status |-> originalPayment.status,
     participants |-> originalPayment.participants]

\* A row that connects no participant and keeps no request URL.
newPaymentUnlinked(input, originalPayment) ==
    [paymentId |-> input.id,
     paymentRequestUrl |-> 0,
     payerAlias |-> input.payerAlias,
     amount |-> input.amount,
     status |-> input.status,
     participants |-> {}]

\* data of prisma.swishPayment.create in swishPaymentCallback
newPayment(input, originalPayment) ==
    [paymentId |-> input.id,
     paymentRequestUrl |-> originalPayment.paymentRequestUrl,
     payerAlias |-> input.payerAlias,
     amount |-> input.amount,
     status |-> input.status,
     participants |-> originalPayment.participants]

\* A create whose row never reaches the table.
createPaymentLost(table, original, row) == table

\* prisma.swishPayment.update of the row found.
updatePayment(table, original, row) == [table EXCEPT ![original] = row]

\* A create that is skipped when the table already holds an equal row.
createPaymentUnlessPresent(table, original, row) ==
    IF \E i \in 1..Len(table) : table[i] = row THEN table ELSE Append(table, row)

\* prisma.swishPayment.create: a new row; the row found is not touched.
createPayment(table, original, row) == Append(table, row)

\* The gateway notes a delivery answered with status 200.
Acknowledge(id) ==
    [swishPay EXCEPT ![id].acknowledged = @ + 1]

swishPaymentCallbackCreate(c) ==
    /\ paycb[c].pc = "create"
    /\ payments' = createPayment(payments, paycb[c].originalPayment,
                        newPayment(paycb[c], payments[paycb[c].originalPayment]))
    /\ IF paycb[c].status = "PAID"
       THEN /\ paycb' = [paycb EXCEPT ![c].pc = "notify",
                                      ![c].newPayment = Len(payments')]
            /\ UNCHANGED swishPay
       ELSE /\ paycb' = [paycb EXCEPT ![c] = IdlePaymentCallback]
            /\ swishPay' = Acknowledge(paycb[c].id)
    /\ UNCHANGED <<participants, refunds, swishRefund, emails,
                   signup, cancel, refcb>>

\* A send to every participant in the table.
sendConfirmationEmailsToAll(sent, recipients) ==
    [p \in DOMAIN sent |-> sent[p] + 1]

\* newPayment.participants.map(sendConfirmationEmail): one send is started
\* for every recipient; sent counts the sends started per participant.
sendConfirmationEmails(sent, recipients) ==
    [p \in DOMAIN sent |-> IF p \in recipients THEN sent[p] + 1 ELSE sent[p]]

\* An answer that passes a failed send on to the gateway.
swishPaymentCallbackAnswerOrError(sendFailed) ==
    IF sendFailed THEN 500 ELSE 200

\* The status swishPaymentCallback answers after the sends: the catch block
\* logs a rejected send and the handler returns status 200 all the same.
swishPaymentCallbackAnswer(sendFailed) == 200

\* Promise.all over sendConfirmationEmail: one send is attempted for every
\* participant of the new row; a rejected send is caught and logged, and
\* status 200 is answered either way.
swishPaymentCallbackNotify(c) ==
    /\ paycb[c].pc = "notify"
    /\ emails' = sendConfirmationEmails(emails,
                                        payments[paycb[c].newPayment].participants)
    /\ paycb' = [paycb EXCEPT ![c] = IdlePaymentCallback]
    /\ \E sendFailed \in BOOLEAN :
          swishPay' = IF swishPaymentCallbackAnswer(sendFailed) = 200
                      THEN Acknowledge(paycb[c].id) ELSE swishPay
    /\ UNCHANGED <<participants, payments, refunds, swishRefund,
                   signup, cancel, refcb>>

(***************************************************************************)
(* cancelBooking                                                           *)
(***************************************************************************)
\* A lookup that takes any payment of the participant, whatever its status.
anyPaymentsOf(p) == swishPaymentsOf(p)

\* swishPayments.find(p => p.status === PAID): the PAID rows of the
\* participant; the relation is loaded in no stated order.
paidPaymentsOf(p) == { i \in swishPaymentsOf(p) : payments[i].status = "PAID" }

\* The outcome of the checks of cancelBooking for the participant of a token
\* at time today: the error thrown, or "ok".
cancelBookingCheck(token, today) ==
    IF token \notin ParticipantIds THEN "NOT_FOUND"
    ELSE LET date == Events[participants[token].eventId].date IN
         IF isWithinInterval(today, twoDaysBeforeDeparture(date), date)
         THEN "TOO_LATE"
         ELSE IF paidPaymentsOf(token) = {} \/ participants[token].payAmount = 0
         THEN "NO_PAYMENT"
         ELSE "ok"

\* Participant lookup by token, the 48 hour check and the payment lookup.
\* A participant's token is its id; token 0 belongs to nobody.  new Date()
\* is read once; no other step of the model reads the clock, so the time
\* read is an input of the invocation.
cancelBookingFind(c) ==
    /\ MayStart(cancel, c, 1)
    /\ \E token \in {0} \cup ParticipantIds, today \in 0..MaxTime :
         IF cancelBookingCheck(token, today) = "ok"
         THEN \E row \in paidPaymentsOf(token) :
                 cancel' = [cancel EXCEPT ![c] =
                    [IdleCancel EXCEPT !.pc = "gateway", !.token = token,
                           !.today = today, !.swishPayment = row]]
         ELSE UNCHANGED cancel
    /\ UNCHANGED <<participants, payments, refunds, swishPay, swishRefund,
                   emails, signup, paycb, refcb>>

\* A refund request for the whole payment, not the participant's share.
refundDataOfPaymentAmount(c) ==
    [originalPaymentReference |-> payments[cancel[c].swishPayment].paymentId,
     amount |-> payments[cancel[c].swishPayment].amount,
     participant |-> cancel[c].token]

\* refundData, the body of the gateway request; the participant is kept
\* with it to tell whose cancellation issued it.
refundData(c) ==
    [originalPaymentReference |-> payments[cancel[c].swishPayment].paymentId,
     amount |-> participants[cancel[c].token].payAmount,
     participant |-> cancel[c].token]

\* createRefundRequest: the gateway accepts the request, or the call throws
\* and the catch block answers INTERNAL_SERVER_ERROR.
cancelBookingGateway(c) ==
    /\ cancel[c].pc = "gateway"
    /\ \/ /\ swishRefund' = Append(swishRefund, refundData(c))
          /\ cancel' = [cancel EXCEPT ![c].pc = "persist",
                                      ![c].refundRequestId = Len(swishRefund) + 1]
       \/ /\ cancel' = [cancel EXCEPT ![c] = IdleCancel]
          /\ UNCHANGED swishRefund
    /\ UNCHANGED <<participants, payments, refunds, swishPay, emails,
                   signup, paycb, refcb>>

\* A row that refunds the whole payment, not the participant's share.
newRefundIntentOfPaymentAmount(c) ==
    [refundId |-> cancel[c].refundRequestId,
     paymentId |-> cancel[c].swishPayment,
     amount |-> payments[cancel[c].swishPayment].amount,
     status |-> "CREATED",
     participantId |-> cancel[c].token]

\* data of prisma.swishRefund.create in cancelBooking
newRefundIntent(c) ==
    [refundId |-> cancel[c].refundRequestId,
     paymentId |-> cancel[c].swishPayment,
     amount |-> participants[cancel[c].token].payAmount,
     status |-> "CREATED",
     participantId |-> cancel[c].token]

\* return refundIntent.refundId
cancelBookingResult(c) == newRefundIntent(c).refundId

cancelBookingPersist(c) ==
    /\ cancel[c].pc = "persist"
    /\ refunds' = Append(refunds, newRefundIntent(c))
    /\ cancel' = [cancel EXCEPT ![c] = IdleCancel]
    /\ UNCHANGED <<participants, payments, swishPay, swishRefund, emails,
                   signup, paycb, refcb>>

(***************************************************************************)
(* swishRefundCallback                                                     *)
(***************************************************************************)
\* findFirst by refund id; BAD_REQUEST when no row carries the id or the row
\* found has no participant.
swishRefundCallbackFind(c) ==
    /\ MayStart(refcb, c, 1)
    /\ \E id \in (1..Len(swishRefund)) \cup {UnknownId},
          status \in CallbackRefundStatuses :
         LET amount == IF id \in 1..Len(swishRefund) THEN swishRefund[id].amount ELSE 0
             input == [IdleRefundCallback EXCEPT !.id = id, !.status = status,
                                                 !.amount = amount]
         IN IF findRefunds(id) = {}
            THEN UNCHANGED refcb
            ELSE \E row \in findRefunds(id) :
                    IF refunds[row].participantId = 0
                    THEN UNCHANGED refcb
                    ELSE refcb' = [refcb EXCEPT ![c] =
                            [input EXCEPT !.pc = "create", !.refundIntent = row]]
    /\ UNCHANGED <<participants, payments, refunds, swishPay, swishRefund,
                   emails, signup, paycb, cancel>>

\* A row that takes its participant from the callback, which names none.
newRefundWithoutParticipant(input, refundIntent) ==
    [refundId |-> input.id,
     paymentId |-> refundIntent.paymentId,
     amount |-> input.amount,
     status |-> input.status,
     participantId |-> 0]

\* A row that references the Payment Request row created last.
newRefundOfLatestPayment(input, refundIntent) ==
    [refundId |-> input.id,
     paymentId |-> Len(payments),
     amount |-> input.amount,
     status |-> input.status,
     participantId |-> refundIntent.participantId]

\* data of prisma.swishRefund.create in swishRefundCallback
newRefund(input, refundIntent) ==
    [refundId |-> input.id,
     paymentId |-> refundIntent.paymentId,
     amount |-> input.amount,
     status |-> input.status,
     participantId |-> refundIntent.participantId]

swishRefundCallbackCreate(c) ==
    /\ refcb[c].pc = "create"
    /\ refunds' = Append(refunds, newRefund(refcb[c], refunds[refcb[c].refundIntent]))
    /\ refcb' = [refcb EXCEPT ![c] = IdleRefundCallback]
    /\ UNCHANGED <<participants, payments, swishPay, swishRefund, emails,
                   signup, paycb, cancel>>

(***************************************************************************)
(* getCancellableParticipant                                               *)
(***************************************************************************)
\* A comparison that takes equal times for before.
isBeforeOrEqual(date, dateToCompare) == date <= dateToCompare

\* date-fns isBefore(date, dateToCompare)
isBefore(date, dateToCompare) == date < dateToCompare

\* What getCancellableParticipant answers for a token at time today: one of
\* its three BAD_REQUEST errors, or the participant with the two flags.
getCancellableParticipantResult(token, today) ==
    IF token \notin ParticipantIds
    THEN [ok |-> FALSE, message |-> "Participant not found"]
    ELSE LET paid == paidPaymentsOf(token) IN
    IF paid = {}
    THEN [ok |-> FALSE, message |-> "Payment not found"]
    ELSE LET date == Events[participants[token].eventId].date
             payment == CHOOSE i \in paid : TRUE
             isBefore48Hours == isBefore(today, twoDaysBeforeDeparture(date))
         IN IF isBefore(date, today)
            THEN [ok |-> FALSE,
                  message |-> "Can't cancel within 48 hours of departure"]
            ELSE [ok |-> TRUE,
                  payAmount |-> participants[token].payAmount,
                  paymentId |-> payments[payment].paymentId,
                  hasCancelled |->
                     \E i \in swishRefundsOf(token) : refunds[i].status = "PAID",
                  cancellationDisabled |-> ~ isBefore48Hours]

\* The query, for any token and at any time: it reads the ledger and the
\* clock, answers, and writes nothing, so all its calls are one step that
\* leaves the state as it is.
getCancellableParticipant ==
    IF \E token \in {0} \cup ParticipantIds, today \in 0..MaxTime :
          getCancellableParticipantResult(token, today).ok \in BOOLEAN
    THEN UNCHANGED vars
    ELSE FALSE

Next ==
    \/ \E s \in Slots : requestSwishPaymentFindEvent(s)
    \/ \E s \in Slots : requestSwishPaymentTransaction(s)
    \/ \E s \in Slots : requestSwishPaymentGateway(s)
    \/ \E s \in Slots : requestSwishPaymentPersist(s)
    \/ \E c \in Slots : swishPaymentCallbackFind(c)
    \/ \E c \in Slots : swishPaymentCallbackCreate(c)
    \/ \E c \in Slots : swishPaymentCallbackNotify(c)
    \/ \E c \in Slots : cancelBookingFind(c)
    \/ \E c \in Slots : cancelBookingGateway(c)
    \/ \E c \in Slots : cancelBookingPersist(c)
    \/ \E c \in Slots : swishRefundCallbackFind(c)
    \/ \E c \in Slots : swishRefundCallbackCreate(c)
    \/ getCancellableParticipant

Spec == Init /\ [][Next]_vars

(***************************************************************************)
(* requestSwishPayment alone, called with participants of every            *)
(* combination of the member and youth flags.                              *)
(***************************************************************************)
PriceTierInputs ==
    { [busId |-> "b2", member |-> m, youth |-> y, phone |-> "A"] :
         m \in BOOLEAN, y \in BOOLEAN }

requestSwishPaymentFindEventAnyTier(s) ==
    /\ \E n \in 1..MaxParticipants :
          /\ MayStart(signup, s, n + 1)
          /\ \E eventId \in EventIds \cup {NoEvent} :
             \E req \in formRequests(PriceTierInputs, eventId, n) :
                IF requestSwishPaymentCheck(eventId) = "ok"
                THEN signup' = [signup EXCEPT ![s] =
                        [IdleSignup EXCEPT !.pc = "transaction",
                                           !.eventId = eventId, !.req = req]]
                ELSE UNCHANGED signup
    /\ UNCHANGED <<participants, payments, refunds, swishPay, swishRefund,
                   emails, paycb, cancel, refcb>>

CostNext ==
    \/ \E s \in Slots : requestSwishPaymentFindEventAnyTier(s)
    \/ \E s \in Slots : requestSwishPaymentTransaction(s)
    \/ \E s \in Slots : requestSwishPaymentGateway(s)
    \/ \E s \in Slots : requestSwishPaymentPersist(s)

CostSpec == Init /\ [][CostNext]_vars

(***************************************************************************)
(* requestSwishPayment alone, called over the API with any request: any    *)
(* number of participants, any consent, any bus.                           *)
(***************************************************************************)
RawInputs ==
    { [busId |-> b, member |-> FALSE, youth |-> FALSE, phone |-> "A",
       consent |-> c] : b \in {"b2", "b3"}, c \in BOOLEAN }

\* A schema that takes any boolean for the consent.
participantSchemaAnyConsent(participant) == participant.consent \in BOOLEAN

\* participantSchema: consent is z.literal(true); the other fields have
\* their types by construction.
participantSchema(participant) == participant.consent = TRUE

\* The input schema of requestSwishPayment:
\* participants: participantSchema.array().min(1).
requestSwishPaymentInput(req) ==
    /\ Len(req) >= 1
    /\ \A i \in 1..Len(req) : participantSchema(req[i])

\* What the procedure answers before its try block: BAD_REQUEST from the
\* input validation or from the event lookup, or "ok" to go on.
requestSwishPaymentAnswer(req, eventId) ==
    IF ~ requestSwishPaymentInput(req) THEN "BAD_REQUEST"
    ELSE requestSwishPaymentCheck(eventId)

\* The request arrives: input validation, then vastraEvent.findFirst.
requestSwishPaymentCall(s) ==
    /\ \E n \in 0..MaxParticipants :
          /\ MayStart(signup, s, n + 1)
          /\ \E eventId \in EventIds \cup {NoEvent},
                req \in [1..n -> RawInputs] :
                IF requestSwishPaymentAnswer(req, eventId) = "ok"
                THEN signup' = [signup EXCEPT ![s] =
                        [IdleSignup EXCEPT !.pc = "transaction",
                                           !.eventId = eventId, !.req = req]]
                ELSE UNCHANGED signup
    /\ UNCHANGED <<participants, payments, refunds, swishPay, swishRefund,
                   emails, paycb, cancel, refcb>>

InputNext ==
    \/ \E s \in Slots : requestSwishPaymentCall(s)
    \/ \E s \in Slots : requestSwishPaymentTransaction(s)
    \/ \E s \in Slots : requestSwishPaymentGateway(s)
    \/ \E s \in Slots : requestSwishPaymentPersist(s)

InputSpec == Init /\ [][InputNext]_vars

(***************************************************************************)
(* Derived views used by the properties.                                   *)
(***************************************************************************)
\* The row created last among a non-empty set of rows of one table.
Latest(rowSet) == CHOOSE i \in rowSet : \A j \in rowSet : j <= i

\* The rows of a payment table that carry a payment id.
rowsOf(table, paymentId) ==
    { i \in 1..Len(table) : table[i].paymentId = paymentId }

\* The status of the row created last for a payment id in a payment table.
statusIn(table, paymentId) == table[Latest(rowsOf(table, paymentId))].status

\* checkPaymentStatus: the status of the row created last for a payment id.
CurrentStatus(paymentId) == statusIn(payments, paymentId)

departure(p) == Events[participants[p].eventId].date

cutoff(p) == twoDaysBeforeDeparture(departure(p))

\* The callback invocation in slot c has just done its create.
PaymentCallbackCreated(c) == paycb[c].pc = "create" /\ paycb'[c].pc # "create"

\* The cancellation in slot c has just passed its checks.
CancelAccepted(c) == cancel[c].pc = "idle" /\ cancel'[c].pc = "gateway"

(***************************************************************************)
(* requestSwishPayment: participant rows                                   *)
(***************************************************************************)
\* C1: a step either leaves the participant table as it is, or it is the
\* transaction of one signup and adds the rows of all N participants of that
\* call after the rows already there; a failing insert at any position
\* leaves none of the call's rows.  Signups that run at the same time do not
\* change this.
C1_AllOrNothing ==
    [][ \/ participants' = participants
        \/ \E s \in Slots :
             /\ signup[s].pc = "transaction"
             /\ signup'[s].pc = "gateway"
             /\ Len(participants') = Len(participants) + Len(signup[s].req)
             /\ SubSeq(participants', 1, Len(participants)) = participants
             /\ signup'[s].created =
                  [i \in 1..Len(signup[s].req) |-> Len(participants) + i] ]_vars

\* A signup of two participants has committed both rows while another
\* signup is running.
C1_Witness ==
    \E s, t \in Slots :
       /\ s # t
       /\ signup[s].pc = "gateway"
       /\ Len(signup[s].created) = 2
       /\ \A i \in 1..2 : signup[s].created[i] \in ParticipantIds
       /\ signup[t].pc # "idle"

(***************************************************************************)
(* Capacity                                                                *)
(***************************************************************************)
\* C2: on every bus the number of participants with a PAID payment (and no
\* PAID refund) is at most the number of seats of the bus.
C2_Counterexample ==
    \A b \in BusIds : paidPassengers(b) <= Buses[b].seats

(***************************************************************************)
(* swishPaymentCallback                                                    *)
(***************************************************************************)
\* C3: the create of a payment callback makes the status of its payload the
\* current status of the payment id; when the row created last for the id
\* already carries the status and the amount of the payload (the same
\* payload was delivered just before), the step adds one more row for the id
\* and the current status after it is the current status before it.
C3_CallbackIdempotent ==
    [][ \A c \in Slots : PaymentCallbackCreated(c) =>
          LET id == paycb[c].id
              last == payments[Latest(findPayments(id))]
          IN /\ statusIn(payments', id) = paycb[c].status
             /\ (last.status = paycb[c].status /\ last.amount = paycb[c].amount) =>
                  /\ statusIn(payments', id) = CurrentStatus(id)
                  /\ Cardinality(rowsOf(payments', id)) =
                       Cardinality(findPayments(id)) + 1 ]_vars

\* The two rows created last for a payment id come from two deliveries of
\* the same payload.
C3_Witness ==
    \E id \in 1..Len(swishPay) :
       /\ Cardinality(findPayments(id)) >= 3
       /\ LET i == Latest(findPayments(id))
              j == Latest(findPayments(id) \ {i})
          IN /\ payments[i].status = "PAID"
             /\ payments[j].status = "PAID"
             /\ payments[i].amount = payments[j].amount

\* C4: every step keeps every existing Payment Request row as it is and
\* adds at most one row behind them; the create of a payment callback adds
\* exactly one row, and that row carries the payment id of the callback.
C4_AppendOnly ==
    [][ /\ Len(payments') \in {Len(payments), Len(payments) + 1}
        /\ SubSeq(payments', 1, Len(payments)) = payments
        /\ \A c \in Slots : PaymentCallbackCreated(c) =>
              /\ Len(payments') = Len(payments) + 1
              /\ payments'[Len(payments')].paymentId = paycb[c].id ]_vars

\* The CREATED row of a signup is still there after a callback has added a
\* PAID row for the same payment id.
C4_Witness ==
    \E i, j \in 1..Len(payments) :
       /\ i < j
       /\ payments[i].paymentId = payments[j].paymentId
       /\ payments[i].status = "CREATED"
       /\ payments[j].status = "PAID"

\* C5: for every payment id the gateway issued, once the row of the signup
\* is persisted the rows of that id are that row, one row for every delivery
\* answered with status 200, and one row for every delivery that has created
\* its row and is still sending the confirmations: k deliveries processed
\* leave 1 + k rows.  Before the row of the signup exists no delivery is
\* answered with success and the id has no row.
C5_RowPerDelivery ==
    \A id \in 1..Len(swishPay) :
       LET sending == { c \in Slots : paycb[c].pc = "notify" /\ paycb[c].id = id }
       IN IF findPayments(id) = {}
          THEN swishPay[id].acknowledged = 0 /\ sending = {}
          ELSE Cardinality(findPayments(id)) =
                  1 + swishPay[id].acknowledged + Cardinality(sending)

\* Two deliveries for one payment id have been answered and the id has
\* three rows.
C5_Witness ==
    \E id \in 1..Len(swishPay) :
       /\ swishPay[id].acknowledged = 2
       /\ Cardinality(findPayments(id)) = 3
       /\ \A c \in Slots : paycb[c].pc = "idle"

(***************************************************************************)
(* getAwayGames: booked seats                                              *)
(***************************************************************************)
\* The participant's most recent Payment Request row is PAID and the most
\* recent Refund Request row, if there is one, is not.
latestRowsPaid(p) ==
    /\ swishPaymentsOf(p) # {}
    /\ payments[Latest(swishPaymentsOf(p))].status = "PAID"
    /\ swishRefundsOf(p) # {} => refunds[Latest(swishRefundsOf(p))].status # "PAID"

\* The gateway payment ids of the signups of a participant, and the gateway
\* refund ids of the participant's cancellations.
paymentIdsOf(p) ==
    { payments[i].paymentId : i \in { j \in swishPaymentsOf(p) :
                                        payments[j].status = "CREATED" } }

refundIdsOf(p) ==
    { refunds[i].refundId : i \in { j \in swishRefundsOf(p) :
                                      refunds[j].status = "CREATED" } }

\* Some row of the history of one of the participant's payment ids is PAID
\* and no row of the history of one of the participant's refund ids is.
someRowPaid(p) ==
    /\ \E id \in paymentIdsOf(p) :
          \E i \in findPayments(id) : payments[i].status = "PAID"
    /\ \A id \in refundIdsOf(p) :
          \A i \in findRefunds(id) : refunds[i].status # "PAID"

\* C6 as stated: the seats booked on a bus are the participants of the bus
\* whose most recent Payment Request row is PAID and whose most recent
\* Refund Request row, if any, is not PAID.
C6_Counterexample ==
    \A b \in BusIds :
       paidPassengers(b) =
          Cardinality({ p \in ParticipantIds :
                          participants[p].busId = b /\ latestRowsPaid(p) })

\* C6: the seats booked on a bus are the participants of the bus for whom
\* some row in the history of one of their gateway payment ids has status
\* PAID, whatever was recorded later, and no row in the history of any of
\* their gateway refund ids has status PAID; the seats booked for an event
\* are the sum over its buses.
C6_BookedSeats ==
    /\ \A b \in BusIds :
          paidPassengers(b) =
             Cardinality({ p \in ParticipantIds :
                             participants[p].busId = b /\ someRowPaid(p) })
    /\ \A e \in EventIds :
          bookedSeats(e) =
             Cardinality({ p \in ParticipantIds :
                             participants[p].eventId = e /\ someRowPaid(p) })

\* A participant counts as booked although a DECLINED row was recorded
\* after the PAID row of the same payment id.
C6_Witness ==
    \E p \in ParticipantIds :
       /\ isPaidPassenger(p)
       /\ payments[Latest(swishPaymentsOf(p))].status = "DECLINED"
       /\ paidPassengers(participants[p].busId) >= 1
       /\ bookedSeats(participants[p].eventId) >= 1

(***************************************************************************)
(* cancelBooking                                                           *)
(***************************************************************************)
\* C7: a cancellation passes its checks only for a participant that has no
\* Refund Request row of status PAID.
C7_Counterexample ==
    [][ \A c \in Slots : CancelAccepted(c) =>
          \A i \in swishRefundsOf(cancel'[c].token) :
             refunds[i].status # "PAID" ]_vars

\* C8: for a participant with a PAID payment, a cancellation at every time
\* from 48 hours before the departure up to, but not including, the
\* departure is rejected as too late, the cutoff itself included, and one
\* time unit before the cutoff it passes the checks; no cancellation that
\* read a time in that window is running, and cancellations that read the
\* time before the cutoff go on to the refund request.
C8_CancellationWindow ==
    /\ \A p \in ParticipantIds : paidPaymentsOf(p) # {} =>
          /\ cancelBookingCheck(p, cutoff(p)) = "TOO_LATE"
          /\ \A t \in 0..MaxTime :
                (cutoff(p) <= t /\ t < departure(p)) =>
                    cancelBookingCheck(p, t) = "TOO_LATE"
          /\ cancelBookingCheck(p, cutoff(p) - 1) = "ok"
    /\ \A c \in Slots : cancel[c].pc # "idle" =>
          ~ (cutoff(cancel[c].token) <= cancel[c].today
               /\ cancel[c].today < departure(cancel[c].token))

\* A cancellation that read the time one unit before the cutoff has issued
\* its refund request.
C8_Witness ==
    \E c \in Slots :
       /\ cancel[c].pc = "persist"
       /\ cancel[c].today = cutoff(cancel[c].token) - 1
       /\ cancel[c].refundRequestId \in 1..Len(swishRefund)

\* C9: no cancellation that read a time after the departure of the event
\* passes the checks.
C9_Counterexample ==
    \A c \in Slots : cancel[c].pc # "idle" =>
       cancel[c].today <= departure(cancel[c].token)

\* C10: for a participant without a Payment Request row of status PAID a
\* cancellation is rejected with an error at every time; no cancellation
\* runs, no refund request was issued to the gateway and no Refund Request
\* row exists for such a participant.
C10_NoPaymentNoRefund ==
    \A p \in ParticipantIds :
       (\A i \in swishPaymentsOf(p) : payments[i].status # "PAID") =>
          /\ \A t \in 0..MaxTime :
                cancelBookingCheck(p, t) \in {"NO_PAYMENT", "TOO_LATE"}
          /\ \A c \in Slots : cancel[c].pc # "idle" => cancel[c].token # p
          /\ \A i \in 1..Len(swishRefund) : swishRefund[i].participant # p
          /\ swishRefundsOf(p) = {}

\* Participants with only a CREATED and a DECLINED row, and with no payment
\* row at all, are told that no payment was found.
C10_Witness ==
    /\ \E p \in ParticipantIds :
          /\ \E i \in swishPaymentsOf(p) : payments[i].status = "DECLINED"
          /\ \A i \in swishPaymentsOf(p) : payments[i].status # "PAID"
          /\ cancelBookingCheck(p, 0) = "NO_PAYMENT"
    /\ \E p \in ParticipantIds :
          /\ swishPaymentsOf(p) = {}
          /\ cancelBookingCheck(p, 0) = "NO_PAYMENT"

(***************************************************************************)
(* requestSwishPayment: cost, payment row, failures                        *)
(***************************************************************************)
\* The price tier the rule names for a pair of flags.
tierPrice(member, youth, event) ==
    CASE youth /\ member -> event.youthMemberPrice
      [] youth /\ ~member -> event.youthPrice
      [] ~youth /\ member -> event.memberPrice
      [] ~youth /\ ~member -> event.defaultPrice

\* C11: for every event and every combination of the member and youth
\* flags getParticipantCost is the youth member price when youth and member,
\* the youth price when youth and not member, the member price when member
\* and not youth, and the default price when neither; every participant row
\* stores that cost, and with the tiers 100, 80, 60, 40 the stored costs are
\* 100 (neither), 80 (member), 60 (youth) and 40 (youth member).
C11_CostRule ==
    /\ \A e \in EventIds : \A m \in BOOLEAN, y \in BOOLEAN :
          getParticipantCost([member |-> m, youth |-> y], Events[e])
             = tierPrice(m, y, Events[e])
    /\ \A p \in ParticipantIds :
          /\ participants[p].payAmount =
                tierPrice(participants[p].member, participants[p].youth,
                          Events[participants[p].eventId])
          /\ participants[p].payAmount =
                CASE participants[p].youth /\ participants[p].member -> 40
                  [] participants[p].youth /\ ~participants[p].member -> 60
                  [] ~participants[p].youth /\ participants[p].member -> 80
                  [] OTHER -> 100

\* Participants of all four flag combinations are stored, each with the
\* price of its tier.
C11_Witness ==
    /\ { participants[p].payAmount : p \in ParticipantIds } = {100, 80, 60, 40}
    /\ \A m \in BOOLEAN, y \in BOOLEAN :
          \E p \in ParticipantIds :
             participants[p].member = m /\ participants[p].youth = y

\* The signup in slot s has just persisted its Payment Request row.
SignupPersisted(s) == signup[s].pc = "persist" /\ signup'[s].pc = "idle"

\* The participants a signup created in its transaction.
createdBy(s) == { signup[s].created[i] : i \in 1..Len(signup[s].created) }

\* C12: a signup whose gateway request succeeded goes on to persist; its
\* persist step adds exactly one Payment Request row, of status CREATED,
\* whose participants are all the participants the call created and nobody
\* else, none of whom is linked to a row or owned by a call that existed
\* before; the id it returns is the payment id of that row, which is the id
\* the gateway issued to this call, and no other row of status CREATED
\* carries that id.
C12_PaymentRowOfSignup ==
    [][ \A s \in Slots :
          /\ (signup[s].pc = "gateway" /\ signup'[s] # signup[s]
                /\ swishPay' # swishPay) =>
                /\ signup'[s].pc = "persist"
                /\ signup'[s].paymentRequestId = Len(swishPay')
                /\ createdBy(s)' = createdBy(s)
          /\ SignupPersisted(s) =>
                LET row == payments'[Len(payments')]
                IN /\ Len(payments') = Len(payments) + 1
                   /\ SubSeq(payments', 1, Len(payments)) = payments
                   /\ row.status = "CREATED"
                   /\ row.participants = createdBy(s)
                   /\ Cardinality(row.participants) = Len(signup[s].req)
                   /\ row.participants \subseteq ParticipantIds
                   /\ \A i \in 1..Len(payments) :
                         payments[i].participants \cap row.participants = {}
                   /\ \A t \in Slots \ {s} :
                         createdBy(t) \cap row.participants = {}
                   /\ requestSwishPaymentResult(s) = row.paymentId
                   /\ row.paymentId = signup[s].paymentRequestId
                   /\ row.paymentId \in 1..Len(swishPay)
                   /\ \A i \in 1..Len(payments) :
                         payments[i].paymentId # row.paymentId ]_vars

\* A CREATED row links the two participants of its call while a
\* participant of another call is in the ledger and is not linked to it.
C12_Witness ==
    \E i \in 1..Len(payments) :
       /\ payments[i].status = "CREATED"
       /\ Cardinality(payments[i].participants) = 2
       /\ \E p \in ParticipantIds : p \notin payments[i].participants

\* The sum of the stored pay-amounts of a set of participants.
payAmountOf(ps) ==
    SumOver(ps, [p \in ParticipantIds |-> participants[p].payAmount])

\* The participant created first among a non-empty set of participants.
First(ps) == CHOOSE p \in ps : \A q \in ps : p <= q

\* C13: on every Payment Request row a signup created (status CREATED) the
\* amount is the sum of the stored pay-amounts of the linked participants
\* and is the amount requested from the gateway under the row's payment id,
\* and the payer alias, on the row and in the gateway request, is the phone
\* of the first participant of the call; the same holds for the gateway
\* request of a signup that has not persisted its row yet.
C13_AmountAndPayer ==
    /\ \A i \in 1..Len(payments) : payments[i].status = "CREATED" =>
          LET row == payments[i]
              request == swishPay[row.paymentId]
          IN /\ row.participants # {}
             /\ row.amount = payAmountOf(row.participants)
             /\ request.amount = row.amount
             /\ row.payerAlias = participants[First(row.participants)].phone
             /\ request.payerAlias = row.payerAlias
    /\ \A s \in Slots : signup[s].pc = "persist" =>
          LET request == swishPay[signup[s].paymentRequestId]
          IN /\ request.amount = payAmountOf(createdBy(s))
             /\ request.payerAlias = participants[signup[s].created[1]].phone

\* A signup of a youth member (40) and an adult non-member (100), in that
\* order, has a row of amount 140 paid by the youth member's phone.
C13_Witness ==
    \E i \in 1..Len(payments) :
       /\ payments[i].status = "CREATED"
       /\ payments[i].amount = 140
       /\ payments[i].payerAlias = "B"
       /\ { participants[p].payAmount : p \in payments[i].participants } = {40, 100}
       /\ swishPay[payments[i].paymentId].amount = 140

\* The gateway call of the signup in slot s has just failed.
SignupGatewayFailed(s) == signup[s].pc = "gateway" /\ signup'[s].pc = "idle"

\* The participants no Payment Request row links and no running signup owns.
orphans ==
    { p \in ParticipantIds :
        /\ swishPaymentsOf(p) = {}
        /\ \A s \in Slots : signup[s].pc = "idle" \/ p \notin createdBy(s) }

\* C14: when the gateway call of a signup fails, the call ends without a
\* payment id; the participant rows it committed stay as they are, the
\* Payment Request table and the gateway's requests do not change, and no
\* row links those participants, then or at any later time.
C14_GatewayFailure ==
    [][ /\ \A s \in Slots : SignupGatewayFailed(s) =>
              /\ signup[s].paymentRequestId = 0
              /\ participants' = participants
              /\ createdBy(s) # {}
              /\ createdBy(s) \subseteq ParticipantIds
              /\ payments' = payments
              /\ swishPay' = swishPay
              /\ \A p \in createdBy(s) : swishPaymentsOf(p) = {}
              /\ createdBy(s) \subseteq orphans'
        /\ orphans \subseteq orphans' ]_vars

\* Both participants of a signup are stored, no signup is running, and
\* the gateway holds no payment request: its call failed.
C14_Witness ==
    /\ Len(participants) = 2
    /\ orphans = {1, 2}
    /\ swishPay = <<>>
    /\ payments = <<>>
    /\ \A s \in Slots : signup[s].pc = "idle"

\* C15: a signup for an event id that does not exist is answered with the
\* error "Event not found" and goes no further: no signup runs for such an
\* id, every participant row belongs to an existing event, and every
\* gateway payment request was issued by a signup for an existing event,
\* which still runs or has persisted its Payment Request row.
C15_EventNotFound ==
    /\ requestSwishPaymentCheck(NoEvent) = "BAD_REQUEST"
    /\ \A e \in EventIds : requestSwishPaymentCheck(e) = "ok"
    /\ \A s \in Slots : signup[s].pc # "idle" => signup[s].eventId \in EventIds
    /\ \A p \in ParticipantIds : participants[p].eventId \in EventIds
    /\ \A i \in 1..Len(payments) :
          /\ payments[i].participants # {}
          /\ payments[i].participants \subseteq ParticipantIds
    /\ \A id \in 1..Len(swishPay) :
          \/ \E s \in Slots : signup[s].pc = "persist"
                                /\ signup[s].paymentRequestId = id
                                /\ signup[s].eventId \in EventIds
          \/ \E i \in rowsOf(payments, id) : payments[i].status = "CREATED"

\* The ledger holds a signup, and a further signup, which may name an
\* event that does not exist, can be made and would be answered with the
\* error.
C15_Witness ==
    /\ Len(participants) >= 1
    /\ Len(payments) >= 1
    /\ MayStart(signup, 1, 2)
    /\ NoEvent \notin EventIds
    /\ requestSwishPaymentCheck(NoEvent) = "BAD_REQUEST"

(***************************************************************************)
(* swishPaymentCallback: unknown id, confirmations, acknowledgment         *)
(***************************************************************************)
\* The ids a payment callback can carry.
CallbackIds == (1..Len(swishPay)) \cup {UnknownId}

\* C16: a payment callback whose payment id no Payment Request row carries
\* is answered with the error "Payment not found" and goes no further: no
\* callback runs for such an id, a step adds a row of a callback only for an
\* id that had a row before, and confirmations are sent only by a callback
\* that found its row.
C16_CallbackNotFound ==
    /\ [](/\ \A id \in CallbackIds :
                rowsOf(payments, id) = {} => swishPaymentCallbackCheck(id) = "BAD_REQUEST"
          /\ rowsOf(payments, UnknownId) = {}
          /\ \A c \in Slots : paycb[c].pc # "idle" =>
                /\ rowsOf(payments, paycb[c].id) # {}
                /\ payments[paycb[c].originalPayment].paymentId = paycb[c].id)
    /\ [][ /\ \A i \in 1..Len(payments') :
                (i > Len(payments) /\ payments'[i].status # "CREATED") =>
                    rowsOf(payments, payments'[i].paymentId) # {}
           /\ emails' # emails /\ Len(participants') = Len(participants) =>
                \E c \in Slots : /\ paycb[c].pc = "notify"
                                 /\ rowsOf(payments, paycb[c].id) # {} ]_vars

\* The gateway has issued a payment id whose row the signup has not
\* persisted yet, next to an id that has rows: a callback for the former,
\* like one for an id never issued, can arrive and is answered with the
\* error.
C16_Witness ==
    /\ payments # <<>>
    /\ MayStart(paycb, 1, 1)
    /\ \E id \in 1..Len(swishPay) :
          /\ rowsOf(payments, id) = {}
          /\ swishPaymentCallbackCheck(id) = "BAD_REQUEST"
    /\ swishPaymentCallbackCheck(UnknownId) = "BAD_REQUEST"

\* The participants the signup row of a payment id links.
linkedTo(paymentId) ==
    UNION { payments[i].participants :
              i \in { j \in rowsOf(payments, paymentId) :
                        payments[j].status = "CREATED" } }

\* The callback invocation in slot c has just finished its sends.
PaymentCallbackNotified(c) == paycb[c].pc = "notify" /\ paycb'[c].pc = "idle"

\* C17: a payment callback goes on to the confirmations exactly when its
\* status is PAID; the sends of one invocation raise the number of sends by
\* one for every participant linked to the payment id and by nothing for
\* everybody else; a step that is not the sends of an invocation, the create
\* of a callback of any status among them, starts no send.
C17_OneSendPerParticipant ==
    [][ /\ \A c \in Slots :
              /\ paycb[c].pc = "notify" => paycb[c].status = "PAID"
              /\ PaymentCallbackCreated(c) =>
                    /\ (paycb'[c].pc = "notify") = (paycb[c].status = "PAID")
                    /\ emails' = emails
              /\ PaymentCallbackNotified(c) =>
                    /\ linkedTo(paycb[c].id) # {}
                    /\ \A p \in ParticipantIds :
                          emails'[p] = IF p \in linkedTo(paycb[c].id)
                                       THEN emails[p] + 1 ELSE emails[p]
        /\ (\A c \in Slots : ~ PaymentCallbackNotified(c)) =>
              \A p \in ParticipantIds : emails'[p] = emails[p] ]_vars

\* A PAID and a DECLINED callback for the payment of two participants have
\* both been answered: each participant was sent one confirmation.
C17_Witness ==
    \E id \in 1..Len(swishPay) :
       /\ Cardinality(linkedTo(id)) = 2
       /\ swishPay[id].acknowledged = 2
       /\ { payments[i].status : i \in rowsOf(payments, id) }
             = {"CREATED", "PAID", "DECLINED"}
       /\ \A p \in linkedTo(id) : emails[p] = 1
       /\ \A c \in Slots : paycb[c].pc = "idle"

\* The callback invocation in slot c has just answered.
PaymentCallbackAnswered(c) ==
    /\ paycb[c].pc \in {"create", "notify"}
    /\ paycb'[c].pc = "idle"

\* C18: a payment callback that has created its row always answers with
\* status 200, after the create when the status is not PAID and after the
\* sends when it is, whether a send failed or not: the step with which it
\* ends counts one more acknowledged delivery for its payment id, and the
\* row it created stays in the table.
C18_AlwaysAcknowledged ==
    [][ \A c \in Slots :
          /\ PaymentCallbackCreated(c) => paycb'[c].pc \in {"notify", "idle"}
          /\ PaymentCallbackAnswered(c) =>
                /\ swishPay'[paycb[c].id].acknowledged =
                      swishPay[paycb[c].id].acknowledged + 1
                /\ \E i \in rowsOf(payments', paycb[c].id) :
                      /\ payments'[i].status = paycb[c].status
                      /\ i > Len(payments) \/ i = paycb[c].newPayment ]_vars

\* A PAID callback has been answered after its sends, and its row is there.
C18_Witness ==
    \E id \in 1..Len(swishPay) :
       /\ swishPay[id].acknowledged = 1
       /\ \E i \in rowsOf(payments, id) : payments[i].status = "PAID"
       /\ \A p \in linkedTo(id) : emails[p] = 1
       /\ \A c \in Slots : paycb[c].pc = "idle"

(***************************************************************************)
(* swishRefundCallback and cancelBooking: refund rows                      *)
(***************************************************************************)
\* The rows of a refund table that carry a refund id.
refundRowsOf(table, refundId) ==
    { i \in 1..Len(table) : table[i].refundId = refundId }

\* The refund callback in slot c has just done its create.
RefundCallbackCreated(c) == refcb[c].pc = "create" /\ refcb'[c].pc = "idle"

\* C19: the create of a refund callback adds exactly one Refund Request row
\* behind the existing ones; the row carries the refund id and the status of
\* the callback and the participant and the payment of the rows that already
\* carry that refund id.  No refund callback runs for a refund id without a
\* row or for a row without a participant, and no step adds a row of a
\* callback for a refund id that had no row.
C19_RefundCallback ==
    /\ [](/\ refundRowsOf(refunds, UnknownId) = {}
          /\ \A c \in Slots : refcb[c].pc # "idle" =>
                /\ refcb[c].refundIntent \in refundRowsOf(refunds, refcb[c].id)
                /\ refunds[refcb[c].refundIntent].participantId \in ParticipantIds)
    /\ [][ /\ \A c \in Slots : RefundCallbackCreated(c) =>
                 LET row == refunds'[Len(refunds')]
                 IN /\ Len(refunds') = Len(refunds) + 1
                    /\ SubSeq(refunds', 1, Len(refunds)) = refunds
                    /\ row.refundId = refcb[c].id
                    /\ row.status = refcb[c].status
                    /\ row.participantId \in ParticipantIds
                    /\ \A j \in refundRowsOf(refunds, refcb[c].id) :
                          /\ refunds[j].participantId = row.participantId
                          /\ refunds[j].paymentId = row.paymentId
           /\ \A i \in 1..Len(refunds') :
                 (i > Len(refunds) /\ refunds'[i].status # "CREATED") =>
                     refundRowsOf(refunds, refunds'[i].refundId) # {} ]_vars

\* A refund id has the row of its cancellation and the row of an ERROR
\* callback, both of the same participant and payment.
C19_Witness ==
    \E i, j \in 1..Len(refunds) :
       /\ i < j
       /\ refunds[i].refundId = refunds[j].refundId
       /\ refunds[i].status = "CREATED"
       /\ refunds[j].status = "ERROR"
       /\ refunds[j].participantId = refunds[i].participantId
       /\ refunds[j].paymentId = refunds[i].paymentId

\* The gateway has just accepted the refund request of the cancellation in
\* slot c; the cancellation in slot c has just persisted its row.
CancelRequested(c) == cancel[c].pc = "gateway" /\ cancel'[c].pc = "persist"

CancelPersisted(c) == cancel[c].pc = "persist" /\ cancel'[c].pc = "idle"

\* C20: a cancellation that passed its checks issues one refund request to
\* the gateway, for the stored pay-amount of the participant and with the
\* payment id of the participant's PAID Payment Request row as reference;
\* its persist step issues no further request and adds exactly one Refund
\* Request row, of status CREATED, linked to the participant and to that
\* PAID row, with the same amount; the id it returns is the refund id of the
\* row, which is the id the gateway issued for the request.
C20_SuccessfulCancel ==
    [][ \A c \in Slots :
          /\ CancelRequested(c) =>
                LET request == swishRefund'[Len(swishRefund')]
                IN /\ Len(swishRefund') = Len(swishRefund) + 1
                   /\ SubSeq(swishRefund', 1, Len(swishRefund)) = swishRefund
                   /\ cancel'[c].refundRequestId = Len(swishRefund')
                   /\ request.amount = participants[cancel[c].token].payAmount
                   /\ request.originalPaymentReference =
                         payments[cancel[c].swishPayment].paymentId
                   /\ refunds' = refunds
          /\ CancelPersisted(c) =>
                LET row == refunds'[Len(refunds')]
                    payment == payments[row.paymentId]
                IN /\ swishRefund' = swishRefund
                   /\ Len(refunds') = Len(refunds) + 1
                   /\ SubSeq(refunds', 1, Len(refunds)) = refunds
                   /\ row.status = "CREATED"
                   /\ row.participantId = cancel[c].token
                   /\ row.participantId \in ParticipantIds
                   /\ payment.status = "PAID"
                   /\ row.participantId \in payment.participants
                   /\ row.amount = participants[row.participantId].payAmount
                   /\ row.amount = swishRefund[row.refundId].amount
                   /\ swishRefund[row.refundId].originalPaymentReference
                         = payment.paymentId
                   /\ cancelBookingResult(c) = row.refundId
                   /\ row.refundId = cancel[c].refundRequestId
                   /\ refundRowsOf(refunds, row.refundId) = {} ]_vars

\* One of the two participants of a PAID payment of 140 has cancelled: the
\* refund row is CREATED and its amount is the participant's own pay-amount.
C20_Witness ==
    \E i \in 1..Len(refunds) :
       /\ refunds[i].status = "CREATED"
       /\ payments[refunds[i].paymentId].status = "PAID"
       /\ payments[refunds[i].paymentId].amount = 140
       /\ refunds[i].amount = participants[refunds[i].participantId].payAmount
       /\ refunds[i].amount < 140
       /\ swishRefund[refunds[i].refundId].amount = refunds[i].amount

(***************************************************************************)
(* Booked seats from signup to refund                                      *)
(***************************************************************************)
\* Some row of a payment id has status PAID.
isPaid(paymentId) ==
    \E i \in rowsOf(payments, paymentId) : payments[i].status = "PAID"

\* The event of the signup of a payment id.
eventOf(paymentId) == participants[First(linkedTo(paymentId))].eventId

everPaidOn(busId) ==
    { p \in ParticipantIds :
        /\ participants[p].busId = busId
        /\ \E i \in swishPaymentsOf(p) : payments[i].status = "PAID" }

refundedOn(busId) ==
    { p \in everPaidOn(busId) :
        \E i \in swishRefundsOf(p) : refunds[i].status = "PAID" }

\* C22: on every bus with p + r participants whose payment is PAID, r of
\* them with a refund that is PAID, the booked seats are p: a participant
\* whose payment and refund are both PAID is not counted, and a participant
\* whose payment is PAID and whose refunds, if any, are all CREATED or ERROR
\* is counted.  The create of a refund callback that reports PAID for a
\* participant that was counted takes one seat off the participant's bus,
\* and the create of a refund callback of another status takes none.
C22_RefundedExcluded ==
    /\ [][ \A c \in Slots, p \in ParticipantIds, b \in BusIds :
              /\ RefundCallbackCreated(c)
              /\ refunds[refcb[c].refundIntent].participantId = p
              /\ participants[p].busId = b
              => paidPassengers(b)' =
                    IF refcb[c].status = "PAID" /\ isPaidPassenger(p)
                    THEN paidPassengers(b) - 1
                    ELSE paidPassengers(b) ]_vars
    /\ []( /\ \A b \in BusIds :
                 paidPassengers(b) =
                    Cardinality(everPaidOn(b)) - Cardinality(refundedOn(b))
           /\ \A p \in ParticipantIds :
                 /\ p \in refundedOn(participants[p].busId) => ~ isPaidPassenger(p)
                 /\ ( /\ p \in everPaidOn(participants[p].busId)
                      /\ \A i \in swishRefundsOf(p) :
                            refunds[i].status \in {"CREATED", "ERROR"} )
                    => isPaidPassenger(p) )

\* Two participants of one bus have paid and one of them has been refunded:
\* the bus has one booked seat.
C22_Witness ==
    \E b \in BusIds :
       /\ Cardinality(everPaidOn(b)) = 2
       /\ Cardinality(refundedOn(b)) = 1
       /\ paidPassengers(b) = 1
       /\ bookedSeats(Buses[b].eventId) = 1

\* The participants created for a bus.
passengersOf(busId) == { p \in ParticipantIds : participants[p].busId = busId }

\* C23: a participant takes at most one seat however many PAID rows link it,
\* so the booked seats of a bus never exceed the number of its participants;
\* the create of a PAID callback for a payment id that already has a PAID
\* row leaves the booked seats of every bus and event as they were.
C23_OneSeatEach ==
    /\ [](\A b \in BusIds : paidPassengers(b) <= Cardinality(passengersOf(b)))
    /\ [][ \A c \in Slots, id \in 1..Len(swishPay) :
              /\ PaymentCallbackCreated(c)
              /\ paycb[c].id = id
              /\ paycb[c].status = "PAID"
              /\ isPaid(id)
              => /\ \A b \in BusIds : paidPassengers(b)' = paidPassengers(b)
                 /\ \A e \in EventIds : bookedSeats(e)' = bookedSeats(e) ]_vars

\* A PAID callback has been delivered three times for one participant, who
\* takes one seat.
C23_Witness ==
    \E p \in ParticipantIds :
       /\ Cardinality({ i \in swishPaymentsOf(p) :
                          payments[i].status = "PAID" }) = 3
       /\ paidPassengers(participants[p].busId) = 1
       /\ bookedSeats(participants[p].eventId) = 1

(***************************************************************************)
(* The pay-amount of a participant                                         *)
(***************************************************************************)
\* C24: the pay-amount of a participant is the price of its tier at the
\* event, no step changes the pay-amount of a participant that exists, the
\* status query reports it as stored, and every refund request sent to the
\* gateway and every Refund Request row carries the stored pay-amount of
\* its participant.
C24_PayAmountFixed ==
    /\ [](\A p \in ParticipantIds :
             /\ participants[p].payAmount =
                   tierPrice(participants[p].member, participants[p].youth,
                             Events[participants[p].eventId])
             /\ \A today \in 0..MaxTime :
                   getCancellableParticipantResult(p, today).ok =>
                      getCancellableParticipantResult(p, today).payAmount =
                         participants[p].payAmount)
    /\ [](\A i \in 1..Len(swishRefund) :
             swishRefund[i].amount =
                participants[swishRefund[i].participant].payAmount)
    /\ [](\A i \in 1..Len(refunds) :
             refunds[i].amount = participants[refunds[i].participantId].payAmount)
    /\ [][ \A p \in ParticipantIds :
              participants'[p].payAmount = participants[p].payAmount ]_vars

\* A youth member who paid 40 as part of a payment of 140 has been refunded
\* 40: the refund callback reported PAID for that amount.
C24_Witness ==
    \E i \in 1..Len(refunds) :
       /\ refunds[i].status = "PAID"
       /\ refunds[i].amount = 40
       /\ participants[refunds[i].participantId].payAmount = 40
       /\ payments[refunds[i].paymentId].amount = 140

(***************************************************************************)
(* The status query                                                        *)
(***************************************************************************)
\* The answer of the query for a token at a time.
statusOf(p, today) == getCancellableParticipantResult(p, today)

\* C25 as stated: for every participant a token resolves and every time the
\* query returns a result whose cancellationDisabled flag is true exactly
\* when the time is not before the cutoff, the times after the departure
\* included, and whose hasCancelled flag is true exactly when some refund
\* of the participant is PAID.
C25_Counterexample ==
    \A p \in ParticipantIds, today \in 0..MaxTime :
       /\ statusOf(p, today).ok
       /\ statusOf(p, today).cancellationDisabled = ~ (today < cutoff(p))
       /\ statusOf(p, today).hasCancelled =
             \E i \in swishRefundsOf(p) : refunds[i].status = "PAID"

\* C25: for a participant that has a PAID payment and a time not after the
\* departure the query returns cancellationDisabled true exactly when the
\* time is not before the cutoff, and hasCancelled true exactly when some
\* refund of the participant is PAID; for a time after the departure, for a
\* participant without a PAID payment and for a token of nobody it answers
\* an error and no flags; the query changes no row and no request.
C25_CancellableStatus ==
    /\ [](\A p \in ParticipantIds :
             LET paid == paidPaymentsOf(p) # {}
                 refunded ==
                    \E i \in swishRefundsOf(p) : refunds[i].status = "PAID"
             IN \A today \in 0..MaxTime :
                   LET status == statusOf(p, today) IN
                   IF paid /\ today <= departure(p)
                   THEN /\ status.ok
                        /\ status.cancellationDisabled = ~ (today < cutoff(p))
                        /\ status.hasCancelled = refunded
                   ELSE /\ ~ status.ok
                        /\ status.message =
                              IF ~ paid
                              THEN "Payment not found"
                              ELSE "Can't cancel within 48 hours of departure")
    /\ [](\A today \in 0..MaxTime :
             /\ ~ statusOf(0, today).ok
             /\ statusOf(0, today).message = "Participant not found")
    /\ [][ getCancellableParticipant =>
              <<participants, payments, refunds, swishPay, swishRefund,
                emails>>' =
              <<participants, payments, refunds, swishPay, swishRefund,
                emails>> ]_vars

\* A participant has paid and has been refunded: the query reports
\* hasCancelled, with cancellation open before the cutoff and disabled from
\* the cutoff to the departure, and it fails after the departure; another
\* participant, who has not paid, gets an error at every time.
C25_Witness ==
    \E p, q \in ParticipantIds :
       /\ statusOf(p, cutoff(p) - 1).ok
       /\ ~ statusOf(p, cutoff(p) - 1).cancellationDisabled
       /\ statusOf(p, cutoff(p)).cancellationDisabled
       /\ statusOf(p, departure(p)).cancellationDisabled
       /\ statusOf(p, departure(p)).hasCancelled
       /\ ~ statusOf(p, departure(p) + 1).ok
       /\ paidPaymentsOf(q) = {}
       /\ ~ statusOf(q, 0).ok

(***************************************************************************)
(* The preconditions of a signup                                           *)
(***************************************************************************)
\* C26 as stated: the bus of every participant belongs to the event of the
\* participant.
C26_Counterexample ==
    \A p \in ParticipantIds :
       Buses[participants[p].busId].eventId = participants[p].eventId

\* The request a running signup was called with passed the input schema.
validRequest(s) ==
    /\ Len(signup[s].req) >= 1
    /\ \A i \in 1..Len(signup[s].req) : signup[s].req[i].consent = TRUE

\* C27: a request with no participants, or with a participant whose consent
\* is not true, never gets past the input validation: the request of every
\* running signup has at least one participant and consent true for all of
\* them, and every step that adds a participant, sends a payment request to
\* the gateway or adds a Payment Request row belongs to such a signup, the
\* participants added being the ones of its request.
C27_ConsentRequired ==
    /\ [](\A s \in Slots : signup[s].pc # "idle" => validRequest(s))
    /\ [][ /\ participants' # participants =>
                \E s \in Slots :
                   /\ signup[s].pc = "transaction"
                   /\ validRequest(s)
                   /\ Len(participants') =
                         Len(participants) + Len(signup[s].req)
                   /\ \A i \in 1..Len(signup[s].req) :
                         participants'[Len(participants) + i].busId =
                            signup[s].req[i].busId
           /\ swishPay' # swishPay =>
                \E s \in Slots : signup[s].pc = "gateway" /\ validRequest(s)
           /\ payments' # payments =>
                \E s \in Slots : signup[s].pc = "persist" /\ validRequest(s)
         ]_vars

\* A signup can be called, the validation answers BAD_REQUEST to the empty
\* request and to a request with one consent missing, whatever the event,
\* and the participants that exist came from a request with consent.
C27_Witness ==
    /\ \E s \in Slots : MayStart(signup, s, 3)
    /\ \A eventId \in EventIds :
          /\ requestSwishPaymentAnswer(<<>>, eventId) = "BAD_REQUEST"
          /\ \E req \in [1..2 -> RawInputs] :
                /\ req[1].consent /\ ~ req[2].consent
                /\ requestSwishPaymentAnswer(req, eventId) = "BAD_REQUEST"
    /\ Len(participants) = 2
    /\ Len(payments) = 1

(***************************************************************************)
(* The rows of one payment id                                              *)
(***************************************************************************)
\* C28: all Payment Request rows of one gateway payment id link the same
\* participants and carry the same request URL, those of the CREATED row of
\* the signup; so whichever row a lookup by payment id returns, the row a
\* callback copies from gives the same participants and URL.
C28_SameLinks ==
    []( \A id \in 1..Len(swishPay) :
           /\ \A i, j \in findPayments(id) :
                 /\ payments[i].participants = payments[j].participants
                 /\ payments[i].paymentRequestUrl = payments[j].paymentRequestUrl
           /\ \A i \in findPayments(id) :
                 /\ payments[i].participants = linkedTo(id)
                 /\ payments[i].participants # {}
                 /\ payments[i].paymentRequestUrl = id )

\* A payment id with the CREATED row of a signup of two participants and
\* the rows of a PAID, a DECLINED and a further callback behind it.
C28_Witness ==
    \E id \in 1..Len(swishPay) :
       /\ Cardinality(findPayments(id)) = 4
       /\ Cardinality(linkedTo(id)) = 2
       /\ \E i, j \in findPayments(id) :
             payments[i].status = "PAID" /\ payments[j].status = "DECLINED"

(***************************************************************************)
(* Refund requests per participant                                         *)
(***************************************************************************)
\* The refund requests sent to the gateway for a participant.
refundRequestsOf(p) ==
    { i \in 1..Len(swishRefund) : swishRefund[i].participant = p }

\* C29 as stated: at most one refund request is ever sent to the gateway
\* for a participant, and the amounts requested for a participant add up to
\* no more than the participant's pay-amount.
C29_Counterexample ==
    \A p \in ParticipantIds :
       /\ Cardinality(refundRequestsOf(p)) <= 1
       /\ SumOver(refundRequestsOf(p),
                  [i \in 1..Len(swishRefund) |-> swishRefund[i].amount])
             <= participants[p].payAmount

(***************************************************************************)
(* Confirmation after payment                                              *)
(***************************************************************************)
\* C30: when the sends of a callback are about to start, the row the
\* callback created is in the table, has status PAID, carries the payment
\* id of the callback and links the recipients; and every participant a
\* confirmation was sent to is linked to a Payment Request row of status
\* PAID.  A step that sends a confirmation to a participant starts from a
\* state in which a PAID row links the participant.
C30_ConfirmAfterPaid ==
    /\ [][ \A p \in ParticipantIds :
              emails'[p] > emails[p] => paidPaymentsOf(p) # {} ]_vars
    /\ []( /\ \A c \in Slots : paycb[c].pc = "notify" =>
                 /\ paycb[c].newPayment \in 1..Len(payments)
                 /\ payments[paycb[c].newPayment].status = "PAID"
                 /\ payments[paycb[c].newPayment].paymentId = paycb[c].id
                 /\ payments[paycb[c].newPayment].participants = linkedTo(paycb[c].id)
           /\ \A p \in ParticipantIds : emails[p] > 0 => paidPaymentsOf(p) # {} )

\* A participant has been sent one confirmation and a second PAID callback
\* for the same payment has stored its row and is about to send.
C30_Witness ==
    \E c \in Slots :
       /\ paycb[c].pc = "notify"
       /\ \E p \in linkedTo(paycb[c].id) :
             /\ emails[p] = 1
             /\ Cardinality(paidPaymentsOf(p)) = 2

(***************************************************************************)
(* The payment a refund refers to                                          *)
(***************************************************************************)
\* The Refund Request row i references a Payment Request row of status PAID
\* that links the participant of row i.
refersToPaidPayment(i) ==
    /\ refunds[i].paymentId \in 1..Len(payments)
    /\ payments[refunds[i].paymentId].status = "PAID"
    /\ refunds[i].participantId \in payments[refunds[i].paymentId].participants

\* C31: every Refund Request row, the CREATED row of a cancellation and the
\* rows the refund callbacks add, references a Payment Request row that has
\* status PAID and links the participant of the refund row; a step that
\* adds a Refund Request row adds one that references a Payment Request row
\* that was there, PAID and linked to the participant, before the step.
C31_RefundOfPaidPayment ==
    /\ [](\A i \in 1..Len(refunds) : refersToPaidPayment(i))
    /\ [][ Len(refunds') > Len(refunds) =>
              LET row == refunds'[Len(refunds')]
              IN /\ row.paymentId \in 1..Len(payments)
                 /\ payments[row.paymentId].status = "PAID"
                 /\ row.participantId \in payments[row.paymentId].participants
                 /\ payments' = payments ]_vars

\* A participant has the CREATED row of a cancellation and the row of a
\* refund callback, both referencing the PAID row of the participant's
\* payment, which is not the row created last for that payment.
C31_Witness ==
    \E i, j \in 1..Len(refunds) :
       /\ refunds[i].status = "CREATED"
       /\ refunds[j].status \in CallbackRefundStatuses
       /\ refunds[i].refundId = refunds[j].refundId
       /\ refunds[i].paymentId = refunds[j].paymentId
       /\ refersToPaidPayment(j)
       /\ \E k \in 1..Len(payments) :
             /\ k > refunds[j].paymentId
             /\ payments[k].paymentId = payments[refunds[j].paymentId].paymentId
====
